---- MODULE Spec2Model ----
(***************************************************************************)
(* Model of the Lockplane evaluation runner                                *)
(* (lockplane-vibe/tests/scenarios/run-evals.py): scenario discovery, the  *)
(* declaration loader, the process executor run_script, the two-phase      *)
(* runner run_scenario and the exit code computed by main.                 *)
(*                                                                         *)
(* Text is a sequence of tokens (a Python string is the concatenation of   *)
(* its tokens); an Optional value is a sequence of length 0 (None) or 1.   *)
(* Time is a steady clock counted in whole seconds.                        *)
(***************************************************************************)
EXTENDS Integers, Sequences, FiniteSets, TLC

\* ---- bounds of the model ----
MaxTimeout == 2          \* declared timeouts range over 1..MaxTimeout
MaxOverhead == 1         \* seconds the harness may add around one child process

\* ---- constants of the program ----
DefaultTimeout == 300    \* ScenarioConfig.timeout default
ValidationTimeout == 60  \* timeout passed to run_script for the validator

None == <<>>
Some(x) == <<x>>

VARIABLES
    baseExists,   \* the scenarios directory exists
    dirExists,    \* scenarios_dir / scenario exists
    files,        \* names of the script and declaration files in the scenario directory
    transcript,   \* Optional content of latest-run.txt
    declFile,     \* content of scenario.yaml
    args,         \* parsed command line: format, verbose
    pc,           \* position of main / run_scenario / run_script
    now,          \* time.time()
    scenarios,    \* list returned by find_scenarios
    config,       \* Optional ScenarioConfig
    results,      \* list of ScenarioResult collected by main
    exitCode,     \* Optional process exit status
    raised,       \* Optional exception that escaped to the interpreter
    console,      \* what was printed, as message tags
    loc,          \* locals of run_scenario
    call,         \* frame of the current run_script call
    ret,          \* value returned by the last run_script call
    procs,        \* every child process spawned, with its current state
    hist          \* history: what has happened so far in this run

vars == <<baseExists, dirExists, files, transcript, declFile, args, pc, now,
          scenarios, config, results, exitCode, raised, console, loc, call,
          ret, procs, hist>>

fsVars == <<baseExists, dirExists, declFile, args>>

\* ---- file names ----
YamlName == "scenario.yaml"
ScenarioPy == "scenario.py"
ScenarioSh == "scenario.sh"
ValidatePy == "validate.py"
ValidateSh == "validate.sh"
ValidatorNames == {ValidatePy, ValidateSh}
FileNames == {YamlName, ScenarioPy, ScenarioSh, ValidatePy, ValidateSh}

\* ---- declarations (content of scenario.yaml) ----
\* A file either fails to parse or parses to a mapping.
Declarations ==
    { [parse |-> "ok", keys |-> {"name", "description", "timeout"},
       name |-> "ok", description |-> "d", timeout |-> t, tags |-> None] :
         t \in 1..MaxTimeout }
    \cup
    { [parse |-> "ok", keys |-> {"name", "description", "tags"},
       name |-> "ok", description |-> "d", timeout |-> 0, tags |-> Some(<<"t">>)],
      \* an empty name and a timeout of zero, both valid YAML
      [parse |-> "ok", keys |-> {"name", "description", "timeout"},
       name |-> "", description |-> "d", timeout |-> 0, tags |-> None],
      [parse |-> "ok", keys |-> {"description"},
       name |-> "", description |-> "d", timeout |-> 0, tags |-> None],
      [parse |-> "error", keys |-> {},
       name |-> "", description |-> "", timeout |-> 0, tags |-> None] }

RequiredFields == {"name", "description"}
KnownFields == {"name", "description", "timeout", "tags"}

FromYaml_Lenient(d) ==
    [ok |-> TRUE, exc |-> "",
     config |-> Some([name |-> d.name,
                      description |-> d.description,
                      timeout |-> IF "timeout" \in d.keys THEN d.timeout
                                  ELSE DefaultTimeout,
                      tags |-> IF "tags" \in d.keys THEN d.tags ELSE None])]

\* ScenarioConfig.from_yaml: yaml.safe_load, then cls(**data).
FromYaml(d) ==
    IF d.parse # "ok" THEN [ok |-> FALSE, exc |-> "YAMLError", config |-> None]
    ELSE IF ~(RequiredFields \subseteq d.keys) \/ ~(d.keys \subseteq KnownFields)
    THEN [ok |-> FALSE, exc |-> "TypeError", config |-> None]
    ELSE [ok |-> TRUE, exc |-> "",
          config |-> Some([name |-> d.name,
                           description |-> d.description,
                           timeout |-> IF "timeout" \in d.keys THEN d.timeout
                                       ELSE DefaultTimeout,
                           tags |-> IF "tags" \in d.keys THEN d.tags ELSE None])]

\* ---- find_scenarios ----
LocateOutcome_SkipYamlCheck(dirE, yamlE) ==
    IF ~dirE THEN "not_found" ELSE "found"

\* Which of the three branches of find_scenarios is taken.
LocateOutcome(dirE, yamlE) ==
    IF ~dirE THEN "not_found"
    ELSE IF ~yamlE THEN "not_valid"
    ELSE "found"

\* Names an entry of the scenarios directory may have, in sorted() order.
SiblingOrder == <<"alpha", "beta", "gamma">>
SiblingNames == {SiblingOrder[i] : i \in 1..Len(SiblingOrder)}
\* What an entry of the scenarios directory can be.
EntryKinds == {"absent", "file", "dir", "dir_with_yaml"}
NoEntries == [n \in SiblingNames |-> "absent"]

IsScenarioDir_AnyDir(kind) == kind \in {"dir", "dir_with_yaml"}

\* path.is_dir() and (path / "scenario.yaml").exists()
IsScenarioDir(kind) == kind = "dir_with_yaml"

\* The list `available` of find_scenarios, as the set of its names.
Available(entries) == {n \in SiblingNames : IsScenarioDir(entries[n])}

\* sorted(available)
Sorted(names) == SelectSeq(SiblingOrder, LAMBDA n : n \in names)

\* The lines printed under "Available scenarios:", none when the list is empty.
AvailableLines(entries) ==
    LET names == Sorted(Available(entries)) IN
    IF Len(names) = 0 THEN <<>>
    ELSE << <<"Available scenarios:">> >> \o
         [i \in 1..Len(names) |-> <<"  - ", names[i]>>]

\* ---- run_script ----
NotFoundMessage(script) == <<"Script not found: ", script>>
TimeoutMessage(timeout) == <<"Timeout after ", ToString(timeout), " seconds">>
ErrorMessage(exc) == <<"Error running script: ", exc>>

\* script_path.suffix
Suffix(script) == IF script \in {ScenarioPy, ValidatePy} THEN ".py" ELSE ".sh"

\* script_path.parent: every script lies in the scenario directory
Parent(script) == "scenario_dir"

Command_AlwaysBash(script) == <<"bash", script>>

Command(script) ==
    IF Suffix(script) = ".py" THEN <<"uv", "run", script>>
    ELSE <<"bash", script>>

ScriptExists_Unchecked(script, present) == TRUE

\* script_path.exists()
ScriptExists(script, present) == script \in present

\* result.stdout + result.stderr
CombinedOutput(stdout, stderr) == stdout \o stderr

FailureOutput_WithPartial(message, partial) == message \o partial

\* The except clauses return the message alone: what the child had written
\* before the failure is dropped.
FailureOutput(message, partial) == message

ExceptHandler_OnlyTimeout(exc, timeout) ==
    IF exc = "TimeoutExpired"
    THEN [caught |-> TRUE, success |-> FALSE, output |-> TimeoutMessage(timeout)]
    ELSE [caught |-> FALSE, success |-> FALSE, output |-> <<>>]

\* The except clauses of run_script: every exception raised in the try block
\* is an Exception and is turned into a (False, message) pair.
ExceptHandler(exc, timeout) ==
    IF exc = "TimeoutExpired"
    THEN [caught |-> TRUE, success |-> FALSE, output |-> TimeoutMessage(timeout)]
    ELSE [caught |-> TRUE, success |-> FALSE, output |-> ErrorMessage(exc)]

ProcAfterTimeout_LeftRunning(p) == p

\* subprocess.run kills and reaps the child when the timeout expires.
ProcAfterTimeout(p) == [p EXCEPT !.state = "killed"]

ProcAfterExit_NotWaited(p, runtime, returncode) ==
    [p EXCEPT !.runtime = runtime]

\* subprocess.run returns once the child has ended and has been reaped.
ProcAfterExit(p, runtime, returncode) ==
    [p EXCEPT !.state = "exited", !.runtime = runtime,
              !.returncode = Some(returncode)]

AfterReturn_RetryOnFailure(success) ==
    IF success THEN "script_done" ELSE "script_start"

\* Every return statement of run_script hands control back to run_scenario,
\* whatever the flag: the script is not run again.
AfterReturn(success) == "script_done"

WaitElapsed_NoTimeout(runtime, timeout, expired) == runtime

\* Seconds spent in subprocess.run waiting for the child.
WaitElapsed(runtime, timeout, expired) ==
    IF expired THEN timeout ELSE runtime

\* Possible run times of a script, relative to the timeout it is given.
Runtimes(timeout) == {0, timeout, timeout + 1, timeout + MaxOverhead + 2}

\* Seconds the harness itself spends around one child process: none, or the
\* most considered.
Overheads == {0, MaxOverhead}

\* Whether the wait expires before the child ends.
MayExpire(runtime, timeout) ==
    IF runtime > timeout THEN {TRUE}
    ELSE IF runtime = timeout THEN BOOLEAN
    ELSE {FALSE}

\* What a child may have written to (stdout, stderr).
Outputs == { <<<<>>, <<>>>>, <<<<"out">>, <<"err">>>> }

\* What a child had written to stdout and stderr when it was killed on
\* timeout (TimeoutExpired carries it; run_script does not look at it).
PartialOutputs == { <<<<>>, <<>>>>, <<<<"partial out">>, <<"partial err">>>> }

\* ---- run_scenario ----
TimeoutFor_AlwaysConfigured(phase, cfg) == cfg.timeout

\* The timeout run_scenario passes to run_script: config.timeout for the
\* setup script, 60 for the validator.
TimeoutFor(phase, cfg) ==
    IF phase = "setup" THEN cfg.timeout ELSE ValidationTimeout

ChooseScript_AlwaysFallback(present, primary, fallback) == fallback

ChooseScript_AlwaysPrimary(present, primary, fallback) == primary

ChooseScript(present, primary, fallback) ==
    IF primary \in present THEN primary ELSE fallback

SetupBanner == <<"--- Scenario Execution ---">>

ValidationBanner_AsSetup == <<"--- Scenario Execution ---">>

ValidationBanner == <<"--- Validation ---">>

Header_NoDescription(cfg) ==
    << <<"=== Scenario: ", cfg.name, " ===">>,
       <<"Started at: ", "timestamp">>,
       <<>> >>

Header(cfg) ==
    << <<"=== Scenario: ", cfg.name, " ===">>,
       <<"Description: ", cfg.description>>,
       <<"Started at: ", "timestamp">>,
       <<>> >>

RECURSIVE Join(_)
\* "\n".join(lines)
Join(lines) ==
    IF Len(lines) = 0 THEN <<>>
    ELSE IF Len(lines) = 1 THEN lines[1]
    ELSE lines[1] \o <<"\n">> \o Join(Tail(lines))

SetupFailureResult_Passed(cfg, duration, output) ==
    [name |-> cfg.name, description |-> cfg.description, passed |-> TRUE,
     duration_seconds |-> duration,
     error_message |-> Some(<<"Scenario execution failed: ">> \o output),
     validation_output |-> <<>>, tags |-> cfg.tags]

SetupFailureResult(cfg, duration, output) ==
    [name |-> cfg.name, description |-> cfg.description, passed |-> FALSE,
     duration_seconds |-> duration,
     error_message |-> Some(<<"Scenario execution failed: ">> \o output),
     validation_output |-> <<>>, tags |-> cfg.tags]

ValidatedResult_AlwaysPassed(cfg, duration, success, validation_output) ==
    [name |-> cfg.name, description |-> cfg.description, passed |-> TRUE,
     duration_seconds |-> duration, error_message |-> None,
     validation_output |-> validation_output, tags |-> cfg.tags]

ValidatedResult_WithError(cfg, duration, success, validation_output) ==
    [name |-> cfg.name, description |-> cfg.description, passed |-> success,
     duration_seconds |-> duration,
     error_message |-> IF success THEN None ELSE Some(<<"Validation failed">>),
     validation_output |-> validation_output, tags |-> cfg.tags]

ValidatedResult(cfg, duration, success, validation_output) ==
    [name |-> cfg.name, description |-> cfg.description, passed |-> success,
     duration_seconds |-> duration, error_message |-> None,
     validation_output |-> validation_output, tags |-> cfg.tags]

NoValidatorResult_Failed(cfg, duration) ==
    [name |-> cfg.name, description |-> cfg.description, passed |-> FALSE,
     duration_seconds |-> duration, error_message |-> None,
     validation_output |-> <<"No validation script found">>, tags |-> cfg.tags]

NoValidatorResult(cfg, duration) ==
    [name |-> cfg.name, description |-> cfg.description, passed |-> TRUE,
     duration_seconds |-> duration, error_message |-> None,
     validation_output |-> <<"No validation script found">>, tags |-> cfg.tags]

\* Outcomes of Path.write_text: written, open failed, write failed after truncation.
WriteOutcomes == {"ok", "open_failed", "write_failed"}

WriteText_KeepsOld(old, lines, outcome) == old

WriteText_Appends(old, lines, outcome) ==
    IF outcome = "ok"
    THEN Some((IF old = None THEN <<>> ELSE old[1] \o <<"\n">>) \o Join(lines))
    ELSE old

\* Content of latest-run.txt after output_file.write_text("\n".join(full_output)).
WriteText(old, lines, outcome) ==
    IF outcome = "ok" THEN Some(Join(lines))
    ELSE IF outcome = "write_failed" THEN Some(<<>>)
    ELSE old

RunsValidation_Always(success) == TRUE

\* The validation phase is entered only past the early return of a failed setup.
RunsValidation(success) == success

\* ---- main ----
AnyFailed_AnyPassed(rs) == \E i \in 1..Len(rs) : rs[i].passed

\* any(not r.passed for r in results)
AnyFailed(rs) == \E i \in 1..Len(rs) : ~rs[i].passed

ExitStatus_AlwaysZero(rs) == 0

\* sys.exit(1) if any result failed, else the interpreter ends with status 0.
ExitStatus(rs) == IF AnyFailed(rs) THEN 1 ELSE 0

\* ---- initial state: the file system and the command line ----
NoDecl == [parse |-> "error", keys |-> {},
           name |-> "", description |-> "", timeout |-> 0, tags |-> None]

NoCall == [script |-> "", timeout |-> 0, phase |-> "none"]
NoRet == [success |-> FALSE, output |-> <<>>]
NoLoc == [start_time |-> 0, scenario_script |-> "", validate_script |-> "",
          full_output |-> <<>>]
NoHist == [loadCalls |-> 0, writes |-> 0, checked |-> FALSE,
           validatorsAtCheck |-> {}, returns |-> <<>>, reported |-> "none",
           entries |-> NoEntries, runs |-> 0, replaced |-> FALSE,
           filesAtBegin |-> {}]

\* A transcript left by an earlier run of the same scenario directory.
OldTranscript ==
    Join(<< <<"=== Scenario: ", "ok", " ===">>, <<"Description: ", "d">>,
            <<"Started at: ", "earlier">>, <<>>, SetupBanner, <<"old out">>, <<>>,
            <<"Status: PASSED (no validation)">>, <<"Duration: ", "0", ".0s">> >>)

Init ==
    /\ baseExists \in BOOLEAN
    /\ dirExists \in BOOLEAN
    /\ dirExists => baseExists
    /\ files \in SUBSET FileNames
    /\ ~dirExists => files = {}
    /\ transcript \in {None, Some(OldTranscript)}
    /\ ~dirExists => transcript = None
    /\ declFile \in Declarations
    /\ YamlName \notin files => declFile = NoDecl
    /\ args \in [format : {"table", "json"}, verbose : BOOLEAN]
    /\ pc = "find"
    /\ now = 0
    /\ scenarios = <<>>
    /\ config = None
    /\ results = <<>>
    /\ exitCode = None
    /\ raised = None
    /\ console = <<>>
    /\ loc = NoLoc
    /\ call = NoCall
    /\ ret = NoRet
    /\ procs = <<>>
    /\ hist = NoHist

\* An exception reaches the interpreter: traceback, exit status 1.
Crash(exc, origin) ==
    /\ raised' = Some([exc |-> exc, origin |-> origin])
    /\ exitCode' = Some(1)
    /\ pc' = "exited"

\* sys.exit(code)
SysExit(code) ==
    /\ exitCode' = Some(code)
    /\ pc' = "exited"
    /\ UNCHANGED raised

\* ---- main, line 290: find_scenarios ----
FindScenarios ==
    /\ pc = "find"
    /\ LET outcome == LocateOutcome(dirExists, YamlName \in files) IN
        CASE outcome = "not_found" ->
                /\ UNCHANGED scenarios
                /\ IF baseExists
                   THEN \* scenarios_dir.iterdir() reads the other entries
                        \E entries \in [SiblingNames -> EntryKinds] :
                        /\ hist' = [hist EXCEPT !.entries = entries]
                        /\ console' = console \o << <<"Error: Scenario not found">>,
                                                     <<"Looking in">> >>
                                              \o AvailableLines(entries)
                        /\ SysExit(1)
                   ELSE \* scenarios_dir.iterdir() raises
                        /\ console' = console \o << <<"Error: Scenario not found">>,
                                                     <<"Looking in">> >>
                        /\ Crash("FileNotFoundError", "find_scenarios")
                        /\ UNCHANGED hist
          [] outcome = "not_valid" ->
                /\ UNCHANGED <<scenarios, hist>>
                /\ console' = console \o << <<"Error: not a valid scenario">>,
                                             <<"Missing">> >>
                /\ SysExit(1)
          [] OTHER ->
                /\ scenarios' = <<"scenario_dir">>
                /\ console' = Append(console, <<"Running scenario">>)
                /\ pc' = "load"
                /\ UNCHANGED <<exitCode, raised, hist>>
    /\ UNCHANGED <<fsVars, files, transcript, now, config, results, loc, call,
                   ret, procs>>

\* ---- main, line 304: ScenarioConfig.from_yaml ----
LoadConfig ==
    /\ pc = "load"
    /\ Len(results) < Len(scenarios)
    /\ hist' = [hist EXCEPT !.loadCalls = @ + 1]
    /\ IF YamlName \notin files
       THEN Crash("FileNotFoundError", "from_yaml") /\ UNCHANGED config
       ELSE LET r == FromYaml(declFile) IN
            IF r.ok
            THEN /\ config' = r.config
                 /\ pc' = "begin"
                 /\ UNCHANGED <<exitCode, raised>>
            ELSE Crash(r.exc, "from_yaml") /\ UNCHANGED config
    /\ UNCHANGED <<fsVars, files, transcript, now, scenarios, results, console,
                   loc, call, ret, procs>>

\* ---- run_scenario, lines 124-148: up to the call of run_script ----
RunScenarioBegin ==
    /\ pc = "begin"
    /\ LET cfg == config[1]
           script == ChooseScript(files, ScenarioPy, ScenarioSh) IN
       \E printOk \in (IF args.verbose THEN BOOLEAN ELSE {TRUE}) :
        /\ loc' = [start_time |-> now,
                   scenario_script |-> script,
                   validate_script |-> ChooseScript(files, ValidatePy, ValidateSh),
                   full_output |-> Header(cfg) \o
                                   (IF printOk THEN <<SetupBanner>> ELSE <<>>)]
        /\ IF printOk
           THEN /\ call' = [script |-> script,
                            timeout |-> TimeoutFor("setup", cfg),
                            phase |-> "setup"]
                /\ console' = IF args.verbose
                              THEN Append(console, <<"Running scenario (verbose)">>)
                              ELSE console
                /\ pc' = "script_start"
                /\ UNCHANGED <<exitCode, raised>>
           ELSE \* console.print at line 145 raises: nothing catches it
                /\ Crash("OSError", "run_scenario")
                /\ UNCHANGED <<call, console>>
    /\ hist' = [hist EXCEPT !.runs = @ + 1, !.filesAtBegin = files]
    /\ UNCHANGED <<fsVars, files, transcript, now, scenarios, config, results,
                   ret, procs>>

\* run_script returns (success, output) to run_scenario.
Return(success, output, mode, ps) ==
    /\ ret' = [success |-> success, output |-> output]
    /\ hist' = [hist EXCEPT !.returns =
                   Append(@, [phase |-> call.phase, success |-> success,
                              output |-> output, mode |-> mode,
                              script |-> call.script,
                              existed |-> call.script \in files,
                              timeout |-> call.timeout,
                              alive |-> {i \in 1..Len(ps) : ps[i].state = "running"}])]
    /\ pc' = AfterReturn(success)
    /\ UNCHANGED <<exitCode, raised>>

\* An exception raised inside the try block of run_script.
Raise(exc, mode, ps, partial) ==
    LET h == ExceptHandler(exc, call.timeout) IN
    IF h.caught
    THEN Return(h.success, FailureOutput(h.output, partial), mode, ps)
    ELSE Crash(exc, "run_script") /\ UNCHANGED <<ret, hist>>

\* ---- run_script, lines 91-107: existence check and spawn ----
RunScriptStart ==
    /\ pc = "script_start"
    /\ IF ~ScriptExists(call.script, files)
       THEN /\ Return(FALSE, NotFoundMessage(call.script), "missing", procs)
            /\ UNCHANGED procs
       ELSE \E spawnOk \in BOOLEAN :
            IF spawnOk
            THEN /\ procs' = Append(procs, [phase |-> call.phase,
                                            script |-> call.script,
                                            cmd |-> Command(call.script),
                                            cwd |-> Parent(call.script),
                                            stdout |-> <<>>,
                                            stderr |-> <<>>,
                                            timeout |-> call.timeout,
                                            runtime |-> 0,
                                            returncode |-> None,
                                            state |-> "running"])
                 /\ pc' = "script_wait"
                 /\ UNCHANGED <<ret, hist, exitCode, raised>>
            ELSE /\ Raise("OSError", "spawn_error", procs, <<>>)
                 /\ UNCHANGED procs
    /\ UNCHANGED <<fsVars, files, transcript, now, scenarios, config, results,
                   console, loc, call>>

\* ---- run_script, lines 101-119: wait for the child, collect its output ----
RunScriptWait ==
    /\ pc = "script_wait"
    /\ LET n == Len(procs) IN
       \E runtime \in Runtimes(call.timeout), d \in Overheads :
       \E expired \in MayExpire(runtime, call.timeout) :
          /\ now' = now + WaitElapsed(runtime, call.timeout, expired) + d
          /\ \* the setup script may create or delete validator files
             \E after \in (IF call.phase = "setup" THEN SUBSET ValidatorNames
                           ELSE {files \cap ValidatorNames}) :
                files' = (files \ ValidatorNames) \cup after
          /\ IF expired
             THEN \* o is what the child had written when it was killed
                  \E o \in PartialOutputs :
                  LET ps == [procs EXCEPT
                               ![n] = ProcAfterTimeout([@ EXCEPT !.runtime = runtime,
                                                                 !.stdout = o[1],
                                                                 !.stderr = o[2]])] IN
                  /\ procs' = ps
                  /\ Raise("TimeoutExpired", "timeout", ps, o[1] \o o[2])
                  /\ UNCHANGED console
             ELSE \E returncode \in {0, 1}, o \in Outputs :
                  \E printOk \in (IF args.verbose THEN BOOLEAN ELSE {TRUE}) :
                     LET ps == [procs EXCEPT
                                  ![n] = [ProcAfterExit(@, runtime, returncode)
                                             EXCEPT !.stdout = o[1], !.stderr = o[2]]]
                         output == CombinedOutput(o[1], o[2]) IN
                     /\ procs' = ps
                     /\ IF printOk
                        THEN /\ console' = IF args.verbose
                                           THEN Append(console, <<"script output">>)
                                           ELSE console
                             /\ Return(returncode = 0, output,
                                       IF returncode = 0 THEN "exit_zero"
                                       ELSE "exit_nonzero", ps)
                        ELSE \* console.print(output) raises inside the try block
                             /\ UNCHANGED console
                             /\ Raise("MarkupError", "print_error", ps, <<>>)
    /\ UNCHANGED <<fsVars, transcript, scenarios, config, results, loc, call>>

DurationLine(duration) == <<"Duration: ", ToString(duration), ".0s">>

\* A terminal branch of run_scenario: write the transcript, return the result
\* to main (line 308 appends it; the loop continues or ends).
Finish(lines, result, h) ==
    \E w \in WriteOutcomes :
        /\ transcript' = WriteText(transcript, lines, w)
        /\ hist' = [h EXCEPT !.writes = @ + 1, !.replaced = (transcript # None)]
        /\ IF w = "ok"
           THEN /\ results' = Append(results, result)
                /\ pc' = IF Len(results') < Len(scenarios) THEN "load" ELSE "report"
                /\ UNCHANGED <<exitCode, raised>>
           ELSE /\ Crash("OSError", "write_text")
                /\ UNCHANGED results

\* ---- run_scenario, lines 149-178 and 199-216 ----
AfterSetup ==
    /\ pc = "script_done"
    /\ call.phase = "setup"
    /\ LET cfg == config[1]
           out1 == loc.full_output \o <<ret.output, <<>>>>
           duration == now - loc.start_time IN
        IF ~RunsValidation(ret.success)
        THEN /\ Finish(out1 \o << <<"Status: FAILED">>, DurationLine(duration),
                                  <<"Error: Scenario execution failed">> >>,
                       SetupFailureResult(cfg, duration, ret.output), hist)
             /\ UNCHANGED <<loc, call, console>>
        ELSE IF loc.validate_script \in files
        THEN \E printOk \in (IF args.verbose THEN BOOLEAN ELSE {TRUE}) :
             /\ hist' = [hist EXCEPT !.checked = TRUE,
                                     !.validatorsAtCheck = files \cap ValidatorNames]
             /\ UNCHANGED <<transcript, results>>
             /\ IF printOk
                THEN /\ loc' = [loc EXCEPT !.full_output = out1 \o <<ValidationBanner>>]
                     /\ call' = [script |-> loc.validate_script,
                                 timeout |-> TimeoutFor("validate", cfg),
                                 phase |-> "validate"]
                     /\ console' = IF args.verbose
                                   THEN Append(console,
                                               <<"Validating scenario (verbose)">>)
                                   ELSE console
                     /\ pc' = "script_start"
                     /\ UNCHANGED <<exitCode, raised>>
                ELSE \* console.print at line 176 raises: nothing catches it
                     /\ loc' = [loc EXCEPT !.full_output = out1]
                     /\ Crash("OSError", "run_scenario")
                     /\ UNCHANGED <<call, console>>
        ELSE /\ Finish(out1 \o << <<"Status: PASSED (no validation)">>,
                                  DurationLine(duration) >>,
                       NoValidatorResult(cfg, duration),
                       [hist EXCEPT !.checked = TRUE,
                                    !.validatorsAtCheck = files \cap ValidatorNames])
             /\ UNCHANGED <<loc, call, console>>
    /\ UNCHANGED <<fsVars, files, now, scenarios, config, ret, procs>>

\* ---- run_scenario, lines 179-198 ----
AfterValidation ==
    /\ pc = "script_done"
    /\ call.phase = "validate"
    /\ LET cfg == config[1]
           duration == now - loc.start_time
           status == IF ret.success THEN "Status: PASSED" ELSE "Status: FAILED" IN
        Finish(loc.full_output \o <<ret.output, <<>>, <<status>>, DurationLine(duration)>>,
               ValidatedResult(cfg, duration, ret.success, ret.output), hist)
    /\ UNCHANGED <<fsVars, files, now, scenarios, config, console, loc, call,
                   ret, procs>>

\* ---- main, lines 312-315: render the report ----
ReportJson ==
    /\ pc = "report"
    /\ args.format = "json"
    /\ console' = Append(console, <<"json report">>)
    /\ hist' = [hist EXCEPT !.reported = "json"]
    /\ pc' = "exit_check"
    /\ UNCHANGED <<fsVars, files, transcript, now, scenarios, config, results,
                   exitCode, raised, loc, call, ret, procs>>

ReportTable ==
    /\ pc = "report"
    /\ args.format # "json"
    /\ console' = Append(console, <<"table report">>)
    /\ hist' = [hist EXCEPT !.reported = "table"]
    /\ pc' = "exit_check"
    /\ UNCHANGED <<fsVars, files, transcript, now, scenarios, config, results,
                   exitCode, raised, loc, call, ret, procs>>

\* ---- main, lines 318-319, and the normal end of the interpreter ----
ExitCheck ==
    /\ pc = "exit_check"
    /\ SysExit(ExitStatus(results))
    /\ UNCHANGED <<fsVars, files, transcript, now, scenarios, config, results,
                   console, loc, call, ret, procs, hist>>

Next ==
    \/ FindScenarios
    \/ LoadConfig
    \/ RunScenarioBegin
    \/ RunScriptStart
    \/ RunScriptWait
    \/ AfterSetup
    \/ AfterValidation
    \/ ReportJson
    \/ ReportTable
    \/ ExitCheck

Spec == Init /\ [][Next]_vars

TypeOK ==
    /\ pc \in {"find", "load", "begin", "script_start", "script_wait",
               "script_done", "report", "exit_check", "exited"}
    /\ Len(results) <= 1

\* ---- what the properties speak about ----
\* run_scenario has returned its ScenarioResult to main.
Completed == Len(results) >= 1
Result == results[1]
\* The first run_script call of a run is the setup phase, the second the validator.
SetupReturned == Len(hist.returns) >= 1
SetupRet == hist.returns[1]
SetupFailed == SetupReturned /\ ~SetupRet.success
ValidatorRan == Len(hist.returns) >= 2
ValidationRet == hist.returns[2]
\* validate_script.exists() at line 174
ValidatorFound == hist.checked /\ loc.validate_script \in hist.validatorsAtCheck
ValidatorSpawned == \E i \in 1..Len(procs) : procs[i].phase = "validate"
DiscoveryFailure == ~dirExists \/ YamlName \notin files
MainEnded == pc = "exited" /\ hist.reported # "none"

\* C1: whenever the setup phase did not succeed (script missing, spawn error,
\* timeout or non-zero exit), the ScenarioResult that run_scenario returns has
\* passed = false and an empty validation_output.
C1_SetupFailureResult ==
    (Completed /\ SetupFailed) =>
        (Result.passed = FALSE /\ Result.validation_output = <<>>)

C1_Witness ==
    /\ Completed
    /\ SetupFailed
    /\ SetupRet.mode = "exit_nonzero"
    /\ ValidatePy \in files

C3_NoValidatorPasses ==
    (Completed /\ SetupRet.success /\ hist.checked /\ hist.validatorsAtCheck = {}) =>
        /\ Result.passed = TRUE
        /\ Result.validation_output = <<"No validation script found">>

C3_Witness ==
    /\ Completed
    /\ SetupRet.success
    /\ hist.checked
    /\ hist.validatorsAtCheck = {}
    /\ Result.passed

\* C4: when main has rendered the report and finished, the exit status is 0 if
\* every collected result passed and 1 otherwise, for the json report and for
\* the table report alike.
C4_ExitCode ==
    MainEnded =>
        /\ hist.reported \in {"json", "table"}
        /\ exitCode = Some(IF \A i \in 1..Len(results) : results[i].passed
                           THEN 0 ELSE 1)

C4_Witness ==
    /\ MainEnded
    /\ hist.reported = "json"
    /\ Len(results) = 1
    /\ ~Result.passed
    /\ exitCode = Some(1)

\* C5: from the moment run_scenario has completed, whatever its outcome, the
\* transcript latest-run.txt exists and is not empty.
C5_TranscriptExists ==
    Completed => (transcript # None /\ Len(transcript[1]) > 0)

C5_Witness ==
    /\ Completed
    /\ SetupFailed
    /\ transcript # None
    /\ "Status: FAILED" \in {transcript[1][i] : i \in 1..Len(transcript[1])}

\* C6: in a run whose setup phase failed no validator process is ever started,
\* even when a validator file exists.
C6_NoValidationAfterFailedSetup ==
    SetupFailed => (~ValidatorSpawned /\ call.phase # "validate")

C6_Witness ==
    /\ pc = "exited"
    /\ SetupFailed
    /\ ValidatePy \in files
    /\ ~ValidatorSpawned

\* C7: no error escapes run_script: a missing script, a non-zero exit, an
\* expired timeout and any error while spawning or running the process all
\* come back as a pair whose flag is False (with a message for the failures
\* that produce no script output), never as an exception.
C7_RunScriptNeverRaises ==
    /\ raised # None => raised[1].origin # "run_script"
    /\ \A i \in 1..Len(hist.returns) :
          LET r == hist.returns[i] IN
          /\ r.mode # "exit_zero" => ~r.success
          /\ r.mode \in {"missing", "timeout", "spawn_error", "print_error"} =>
                Len(r.output) > 0

C7_Witness ==
    /\ SetupReturned
    /\ SetupRet.mode = "spawn_error"
    /\ ~SetupRet.success
    /\ SetupRet.output = <<"Error running script: ", "OSError">>

\* C8: when a script exceeds its timeout, run_script returns failure with the
\* message "Timeout after N seconds", N being the timeout it was given (the
\* scenario's for the setup script, 60 for the validator), and no child
\* process is running any more when it returns.
C8_TimeoutKills ==
    \A i \in 1..Len(hist.returns) :
        LET r == hist.returns[i]
            n == IF r.phase = "setup" THEN config[1].timeout ELSE 60 IN
        r.mode = "timeout" =>
            /\ ~r.success
            /\ r.output = <<"Timeout after ", ToString(n), " seconds">>
            /\ r.alive = {}

C8_Witness ==
    /\ ValidatorRan
    /\ ValidationRet.mode = "timeout"
    /\ ValidationRet.output = <<"Timeout after ", "60", " seconds">>
    /\ Len(procs) = 2
    /\ procs[2].state = "killed"

\* C9: a setup script that runs longer than the scenario's timeout is killed,
\* and the result recorded for the run is a failure whose duration_seconds is
\* at least the timeout and at most the timeout plus the harness overhead.
C9_TimeoutDuration ==
    (Len(procs) >= 1 /\ procs[1].state # "running"
        /\ procs[1].runtime > config[1].timeout) =>
        /\ procs[1].state = "killed"
        /\ Completed =>
              /\ ~Result.passed
              /\ Result.duration_seconds >= config[1].timeout
              /\ Result.duration_seconds <= config[1].timeout + MaxOverhead

C9_Witness ==
    /\ Completed
    /\ Len(procs) >= 1
    /\ procs[1].state = "killed"
    /\ procs[1].runtime > config[1].timeout + MaxOverhead
    /\ Result.duration_seconds = config[1].timeout + MaxOverhead

\* C10: when the scenario directory or its scenario.yaml is missing, the run
\* ends in its first step with exit status 1: the declaration is never
\* loaded, no process is spawned and no transcript is written.
C10_DiscoveryFailureIsFatal ==
    DiscoveryFailure =>
        /\ pc \in {"find", "exited"}
        /\ pc = "exited" => exitCode = Some(1)
        /\ hist.loadCalls = 0
        /\ config = None
        /\ procs = <<>>
        /\ hist.writes = 0
        /\ results = <<>>

C10_Witness ==
    /\ pc = "exited"
    /\ dirExists
    /\ YamlName \notin files
    /\ {ScenarioPy, ValidatePy} \subseteq files
    /\ exitCode = Some(1)

\* The names printed as items of the "Available scenarios:" list.
ListedItems == SelectSeq(console, LAMBDA l : Len(l) = 2 /\ l[1] = "  - ")

\* C11: when the requested scenario has no directory, the process exits 1 and
\* the names listed are exactly the entries of the scenarios directory that
\* are directories holding a scenario.yaml, each listed once.
C11_ListsSiblingScenarios ==
    (pc = "exited" /\ ~dirExists) =>
        /\ exitCode = Some(1)
        /\ {ListedItems[i][2] : i \in 1..Len(ListedItems)} =
              {n \in SiblingNames : hist.entries[n] = "dir_with_yaml"}
        /\ \A i, j \in 1..Len(ListedItems) :
              ListedItems[i][2] = ListedItems[j][2] => i = j

C11_Witness ==
    /\ pc = "exited"
    /\ ~dirExists
    /\ hist.entries["alpha"] = "dir"
    /\ hist.entries["beta"] = "dir_with_yaml"
    /\ hist.entries["gamma"] = "file"
    /\ ListedItems = << <<"  - ", "beta">> >>

\* The declaration exists but cannot be loaded: unparseable, or a required
\* field is absent.
MalformedDeclaration ==
    /\ YamlName \in files
    /\ declFile.parse # "ok" \/ ~(RequiredFields \subseteq declFile.keys)

\* C12: loading a declaration that is unparseable or lacks a required field
\* fails with an error (yaml.YAMLError or TypeError) that ends the process
\* with status 1: no setup or validation process is run, no result is
\* produced, and the run never ends with status 0.
C12_ConfigErrorIsFatal ==
    MalformedDeclaration =>
        /\ pc \in {"find", "load", "exited"}
        /\ config = None
        /\ procs = <<>>
        /\ results = <<>>
        /\ exitCode # Some(0)
        /\ pc = "exited" =>
              /\ exitCode = Some(1)
              /\ raised # None
              /\ raised[1].origin = "from_yaml"
              /\ raised[1].exc \in {"YAMLError", "TypeError"}

C12_Witness ==
    /\ pc = "exited"
    /\ MalformedDeclaration
    /\ declFile.keys = {"description"}
    /\ ScenarioPy \in files
    /\ raised # None
    /\ raised[1].exc = "TypeError"

\* A setup script that exited non-zero or timed out, or a validator that failed.
ExecutionOrValidationFailure ==
    /\ SetupReturned
    /\ \/ SetupRet.mode \in {"exit_nonzero", "timeout"}
       \/ ValidatorRan /\ ~ValidationRet.success

RunState ==
    IF Completed THEN (IF Result.passed THEN "Passed" ELSE "Failed")
    ELSE IF raised # None THEN "Aborted"
    ELSE IF pc \in {"script_start", "script_wait", "script_done"}
    THEN (IF call.phase = "setup" THEN "RunningSetup" ELSE "RunningValidate")
    ELSE "Pending"

\* Passed straight after the setup phase is the validation phase finding no
\* validator to run; Aborted is an exception leaving the run.
Transitions ==
    { <<"Pending", "RunningSetup">>, <<"RunningSetup", "Failed">>,
      <<"RunningSetup", "RunningValidate">>, <<"RunningSetup", "Passed">>,
      <<"RunningValidate", "Passed">>, <<"RunningValidate", "Failed">>,
      <<"Pending", "Aborted">>, <<"RunningSetup", "Aborted">>,
      <<"RunningValidate", "Aborted">> }

ProcCount(phase) == Cardinality({i \in 1..Len(procs) : procs[i].phase = phase})
ReturnCount(phase) ==
    Cardinality({i \in 1..Len(hist.returns) : hist.returns[i].phase = phase})

AtMostOnce ==
    /\ hist.runs <= 1
    /\ ProcCount("setup") <= 1
    /\ ProcCount("validate") <= 1
    /\ ReturnCount("setup") <= 1
    /\ ReturnCount("validate") <= 1
    /\ hist.writes <= 1
    /\ Len(results) <= 1

\* C14: the scenario moves Pending -> Running(setup) -> {Failed |
\* Running(validate) -> {Passed | Failed}} and never back: Passed and Failed
\* are final, validation starts only after a successful setup, the setup
\* script and the validation script are each run at most once, and at most
\* one result is produced.
C14_NoRetry ==
    [][ /\ RunState' # RunState => <<RunState, RunState'>> \in Transitions
        /\ (RunState = "RunningSetup" /\ RunState' = "RunningValidate") => ret.success
        /\ (RunState = "RunningSetup" /\ RunState' = "Failed") => ~ret.success
        /\ AtMostOnce'
      ]_vars

C14_Witness ==
    /\ pc = "exited"
    /\ RunState = "Failed"
    /\ ProcCount("setup") = 1
    /\ ProcCount("validate") = 1
    /\ ValidatorRan
    /\ ValidationRet.mode = "timeout"

\* C15: once a script of the attempt has been run, on every path by which
\* control leaves run_scenario, a returned result or an exception raised in
\* its body, the transcript of that attempt has been written. (An exception
\* of the write itself is left out: it is the write that failed.)
C15_TranscriptOnEveryExit ==
    (SetupReturned /\
        (Completed \/ (raised # None /\ raised[1].origin = "run_scenario"))) =>
        hist.writes >= 1

\* ---- text of the transcript ----
Tokens(text) == {text[i] : i \in 1..Len(text)}
Occurrences(text, toks) == Cardinality({i \in 1..Len(text) : text[i] \in toks})
\* sub occurs in text as a contiguous piece
Contains(text, sub) ==
    \E k \in 0..(Len(text) - Len(sub)) :
        \A i \in 1..Len(sub) : text[k + i] = sub[i]
StatusLines == {"Status: FAILED", "Status: PASSED", "Status: PASSED (no validation)"}

\* C16: the transcript a run writes replaces the one an earlier run left:
\* after a completed run latest-run.txt holds one scenario header and one
\* status line, and nothing of the earlier transcript.
C16_TranscriptReplaced ==
    Completed =>
        /\ transcript # None
        /\ Occurrences(transcript[1], {"=== Scenario: "}) = 1
        /\ Occurrences(transcript[1], StatusLines) = 1
        /\ Tokens(transcript[1]) \cap {"old out", "earlier"} = {}

C16_Witness ==
    /\ Completed
    /\ hist.replaced
    /\ ValidatorRan
    /\ "Status: PASSED" \in Tokens(transcript[1])

\* C17: error_message is set exactly when the setup phase failed, and then
\* starts with "Scenario execution failed"; results of a validator run and of
\* the no-validator branch leave it unset.
C17_ErrorMessageIffSetupFailed ==
    Completed =>
        /\ Result.error_message # None <=> SetupFailed
        /\ SetupFailed =>
              /\ Result.error_message[1][1] = "Scenario execution failed: "
              /\ Tail(Result.error_message[1]) = SetupRet.output

C17_Witness ==
    /\ Completed
    /\ ValidatorRan
    /\ ~ValidationRet.success
    /\ Result.error_message = None

\* What the transcript does carry of a result: name, description, status,
\* duration, the timestamp and the setup banner.
TranscriptBasics(r, text) ==
    /\ Contains(text, <<"=== Scenario: ", r.name, " ===">>)
    /\ Contains(text, <<"Description: ", r.description>>)
    /\ r.passed <=> (Tokens(text) \cap {"Status: PASSED",
                                       "Status: PASSED (no validation)"} # {})
    /\ ~r.passed <=> ("Status: FAILED" \in Tokens(text))
    /\ Contains(text, <<"Duration: ", ToString(r.duration_seconds), ".0s">>)
    /\ "Started at: " \in Tokens(text)
    /\ SetupBanner[1] \in Tokens(text)

\* C18 as stated: every field value of the result is found in the transcript,
\* error_message, validation_output and tags included.
C18_TranscriptSuperset ==
    Completed =>
        /\ transcript # None
        /\ TranscriptBasics(Result, transcript[1])
        /\ Result.error_message # None =>
              Contains(transcript[1], Result.error_message[1])
        /\ Contains(transcript[1], Result.validation_output)
        /\ Result.tags # None =>
              Tokens(Result.tags[1]) \subseteq Tokens(transcript[1])

\* C18 amended: the transcript of a completed run carries the result's name,
\* description, status, duration, the timestamp and the phase banner, the
\* setup output that error_message embeds with the line "Error: Scenario
\* execution failed", and the validator's output when a validator ran; a run
\* without validator is marked "Status: PASSED (no validation)".
C18_TranscriptCarriesResult ==
    Completed =>
        /\ transcript # None
        /\ TranscriptBasics(Result, transcript[1])
        /\ Result.error_message # None =>
              /\ "Error: Scenario execution failed" \in Tokens(transcript[1])
              /\ Contains(transcript[1], Tail(Result.error_message[1]))
        /\ ValidatorRan => Contains(transcript[1], Result.validation_output)
        /\ (SetupRet.success /\ ~ValidatorRan) =>
              "Status: PASSED (no validation)" \in Tokens(transcript[1])

C18_Witness ==
    /\ Completed
    /\ Result.tags = Some(<<"t">>)
    /\ "t" \notin Tokens(transcript[1])
    /\ Result.validation_output = <<"No validation script found">>
    /\ "No validation script found" \notin Tokens(transcript[1])

\* i is the place of the first token of a banner line in the text
BannerAt(text, banner, i) == i \in 1..Len(text) /\ text[i] = banner[1]

\* C19: the transcript of a run whose validation phase ran holds both phase
\* banners, "--- Scenario Execution ---" before "--- Validation ---",
\* whatever the validator's outcome; the transcript of a run whose setup
\* failed holds the setup banner only.
C19_PhaseBanners ==
    Completed =>
        /\ ValidatorRan =>
              \E i, j \in 1..Len(transcript[1]) :
                  /\ i < j
                  /\ BannerAt(transcript[1], <<"--- Scenario Execution ---">>, i)
                  /\ BannerAt(transcript[1], <<"--- Validation ---">>, j)
        /\ SetupFailed =>
              /\ "--- Scenario Execution ---" \in Tokens(transcript[1])
              /\ "--- Validation ---" \notin Tokens(transcript[1])

C19_Witness ==
    /\ Completed
    /\ ValidatorRan
    /\ ~ValidationRet.success
    /\ "--- Validation ---" \in Tokens(transcript[1])

\* C20: the harness never has two child processes alive: every process but
\* the last one spawned has ended (exited, or killed on timeout), so the setup
\* process has ended before the validator is started.
C20_OneProcessAtATime ==
    /\ \A i \in 1..(Len(procs) - 1) : procs[i].state # "running"
    /\ Cardinality({i \in 1..Len(procs) : procs[i].state = "running"}) <= 1

C20_Witness ==
    /\ Len(procs) = 2
    /\ procs[1].phase = "setup"
    /\ procs[1].state = "exited"
    /\ procs[2].phase = "validate"
    /\ procs[2].state = "running"

\* C21: the setup script is run with the timeout of the scenario's
\* configuration and the validator always with 60 seconds, whether the
\* configured timeout is smaller or larger than 60.
C21_PhaseTimeouts ==
    /\ \A i \in 1..Len(procs) :
          procs[i].timeout = IF procs[i].phase = "setup" THEN config[1].timeout
                             ELSE ValidationTimeout
    /\ \A i \in 1..Len(hist.returns) :
          hist.returns[i].timeout = IF hist.returns[i].phase = "setup"
                                    THEN config[1].timeout
                                    ELSE ValidationTimeout

C21_Witness ==
    /\ Len(procs) = 2
    /\ config[1].timeout = DefaultTimeout
    /\ procs[1].phase = "setup"
    /\ procs[1].timeout = DefaultTimeout
    /\ procs[2].phase = "validate"
    /\ procs[2].timeout = ValidationTimeout
    /\ ValidatorRan

\* C22: at the lookup (lines 126-134) the setup script is scenario.py
\* whenever scenario.py exists, also when scenario.sh exists too, and
\* scenario.sh only when scenario.py is absent; the validator is chosen from
\* validate.py and validate.sh by the same rule; the scripts run are the
\* chosen ones.
C22_ScriptLookup ==
    hist.runs >= 1 =>
        /\ loc.scenario_script =
              IF ScenarioPy \in hist.filesAtBegin THEN ScenarioPy ELSE ScenarioSh
        /\ loc.validate_script =
              IF ValidatePy \in hist.filesAtBegin THEN ValidatePy ELSE ValidateSh
        /\ \A i \in 1..Len(procs) :
              procs[i].script = IF procs[i].phase = "setup"
                                THEN loc.scenario_script
                                ELSE loc.validate_script

C22_Witness ==
    /\ Len(procs) = 2
    /\ {ScenarioPy, ScenarioSh, ValidatePy, ValidateSh} \subseteq hist.filesAtBegin
    /\ procs[1].script = ScenarioPy
    /\ procs[2].script = ValidatePy

\* C23: the command run_script starts depends on the script's extension
\* alone: a .py script is run as "uv run <script>", any other script as
\* "bash <script>"; in both cases the working directory is the directory
\* that holds the script.
C23_Interpreter ==
    \A i \in 1..Len(procs) :
        /\ procs[i].script \in {ScenarioPy, ValidatePy} =>
              procs[i].cmd = <<"uv", "run", procs[i].script>>
        /\ procs[i].script \in {ScenarioSh, ValidateSh} =>
              procs[i].cmd = <<"bash", procs[i].script>>
        /\ procs[i].cwd = "scenario_dir"

C23_Witness ==
    /\ Len(procs) = 2
    /\ procs[1].script = ScenarioSh
    /\ procs[1].cmd = <<"bash", ScenarioSh>>
    /\ procs[2].script = ValidatePy
    /\ procs[2].cmd = <<"uv", "run", ValidatePy>>
    /\ procs[2].cwd = "scenario_dir"

\* C24: a run_script call whose script path does not exist returns failure
\* with the output "Script not found: <path>", and no process is started
\* for it.
C24_MissingScript ==
    \A i \in 1..Len(hist.returns) :
        LET r == hist.returns[i] IN
        ~r.existed =>
            /\ r.mode = "missing"
            /\ ~r.success
            /\ r.output = <<"Script not found: ", r.script>>
            /\ ProcCount(r.phase) = 0

C24_Witness ==
    /\ SetupReturned
    /\ ~SetupRet.existed
    /\ SetupRet.output = <<"Script not found: ", ScenarioSh>>
    /\ procs = <<>>
    /\ Completed

\* C25: every configuration the loader produces has a name that is present
\* and not empty and a timeout that is a positive integer, 300 when the
\* declaration omits it; a declaration without these never reaches
\* run_scenario.
C25_DescriptorWellFormed ==
    config # None =>
        /\ "name" \in declFile.keys
        /\ config[1].name # ""
        /\ config[1].timeout > 0
        /\ "timeout" \notin declFile.keys => config[1].timeout = DefaultTimeout

\* The child of a run_script call: the process spawned in the call's phase.
ProcOf(r) == procs[CHOOSE j \in 1..Len(procs) : procs[j].phase = r.phase]
RanToCompletion(r) ==
    /\ ProcCount(r.phase) = 1
    /\ ProcOf(r).state = "exited"

\* C26: when the child of a run_script call ran to completion within the
\* timeout, the output returned is its stdout followed by its stderr and the
\* success flag is true exactly when its exit code is zero.
C26_CombinedOutput ==
    \A i \in 1..Len(hist.returns) :
        LET r == hist.returns[i] IN
        RanToCompletion(r) =>
            /\ r.output = ProcOf(r).stdout \o ProcOf(r).stderr
            /\ r.success <=> (ProcOf(r).returncode = Some(0))

\* What run_script returns for a child's behaviour when verbose is false.
QuietReturn(p) ==
    IF p.state = "exited"
    THEN [success |-> p.returncode = Some(0), output |-> p.stdout \o p.stderr]
    ELSE [success |-> FALSE,
          output |-> <<"Timeout after ", ToString(p.timeout), " seconds">>]

Spawned(r) == ProcCount(r.phase) = 1 /\ ProcOf(r).state # "running"

QuietRunMatches ==
    /\ \A i \in 1..Len(hist.returns) :
          LET r == hist.returns[i] IN
          Spawned(r) =>
              /\ r.success = QuietReturn(ProcOf(r)).success
              /\ r.output = QuietReturn(ProcOf(r)).output
    /\ (SetupReturned /\ raised # None) => raised[1].origin # "run_scenario"

\* C27: the verbose flag does not influence the outcome. A run with verbose
\* false returns for every child the pair QuietReturn and, once the setup
\* script has run, never raises from run_scenario's own console output; the
\* claim is that a run with verbose true does the same, also when echoing to
\* the console fails.
C27_VerboseNoInfluence == args.verbose => QuietRunMatches

\* C28: the validator that judges a run is the one the primary/fallback rule
\* gives for the files present when the validation phase begins (after a
\* successful setup), and a run does not pass as "no validation" while
\* validate.py exists at that time.
C28_ValidatorAtValidationTime ==
    hist.checked =>
        /\ \A i \in 1..Len(procs) :
              procs[i].phase = "validate" =>
                  procs[i].script =
                      ChooseScript(hist.validatorsAtCheck, ValidatePy, ValidateSh)
        /\ (Completed /\ ~ValidatorRan /\ Result.passed) =>
              ValidatePy \notin hist.validatorsAtCheck

PartialTokens == {"partial out", "partial err"}

\* C29: a run_script call that ends by timeout or spawn failure returns
\* exactly "Timeout after N seconds" or "Error running script: ..." and
\* nothing of what the child had written; the result and the transcript of
\* such a run hold none of that partial output either.
C29_NoPartialOutput ==
    \A i \in 1..Len(hist.returns) :
        LET r == hist.returns[i] IN
        r.mode \in {"timeout", "spawn_error"} =>
            /\ ~r.success
            /\ r.output = IF r.mode = "timeout"
                          THEN <<"Timeout after ", ToString(r.timeout), " seconds">>
                          ELSE <<"Error running script: ", "OSError">>
            /\ Completed =>
                  /\ Tokens(transcript[1]) \cap PartialTokens = {}
                  /\ Tokens(Result.validation_output) \cap PartialTokens = {}
                  /\ Result.error_message # None =>
                        Tokens(Result.error_message[1]) \cap PartialTokens = {}

C29_Witness ==
    /\ Completed
    /\ SetupReturned
    /\ SetupRet.mode = "timeout"
    /\ Len(procs) = 1
    /\ procs[1].stdout = <<"partial out">>
    /\ procs[1].stderr = <<"partial err">>
    /\ Result.error_message =
          Some(<<"Scenario execution failed: ", "Timeout after ",
                 ToString(config[1].timeout), " seconds">>)

\* The scenario directory holds scenario.yaml but no setup script.
NoSetupScript ==
    hist.runs >= 1 /\ hist.filesAtBegin \cap {ScenarioPy, ScenarioSh} = {}

\* C30: in a scenario directory without scenario.py and scenario.sh the
\* missing script does not make run_scenario raise: run_script returns
\* "Script not found: scenario.sh", no process is spawned (no validator
\* either, even when one is present), and the run ends Failed with that
\* message in error_message and with its transcript written.  Only failing
\* console or transcript I/O can end such a run without a result.
C30_NoSetupScript ==
    NoSetupScript =>
        /\ procs = <<>>
        /\ Len(hist.returns) <= 1
        /\ raised # None => raised[1].origin \in {"run_scenario", "write_text"}
        /\ SetupReturned =>
              /\ SetupRet.mode = "missing"
              /\ SetupRet.output = <<"Script not found: ", ScenarioSh>>
        /\ Completed =>
              /\ ~Result.passed
              /\ Result.error_message =
                    Some(<<"Scenario execution failed: ", "Script not found: ",
                           ScenarioSh>>)
              /\ hist.writes = 1
              /\ transcript # None
              /\ "Status: FAILED" \in Tokens(transcript[1])
              /\ "Script not found: " \in Tokens(transcript[1])

C30_Witness ==
    /\ NoSetupScript
    /\ Completed
    /\ ValidatePy \in files
    /\ procs = <<>>
    /\ transcript # None
    /\ pc = "exited"

====
